---- MODULE Spec2Model ----
(***************************************************************************)
(* Local-filesystem secrets backend                                        *)
(* (airflow-core/src/airflow/secrets/local_filesystem.py).                 *)
(*                                                                         *)
(* Python values are records [t |-> <python type name>, v |-> <payload>];  *)
(* strings are sequences of characters.  A mapping read from a file (a     *)
(* dict with insertion order) is a sequence of entries [key, value] with   *)
(* pairwise distinct keys.  The result of a call is [kind |-> "return",    *)
(* val |-> ...] or [kind |-> "raise", val |-> <<class, condition, data>>]. *)
(***************************************************************************)
EXTENDS Integers, Sequences, FiniteSets, TLC

VARIABLES files, backend, heap, pc, frame, last, first

vars == <<files, backend, heap, pc, frame, last, first>>

-----------------------------------------------------------------------------
(* Bounds of the model *)

MaxLines == 2
MaxLineLen == 2
MaxEntries == 2
MaxErrLine == 2

-----------------------------------------------------------------------------
(* Python values *)

Str(s) == [t |-> "str", v |-> s]
PyInt(s) == [t |-> "int", v |-> s]
PyBool(s) == [t |-> "bool", v |-> s]
List(s) == [t |-> "list", v |-> s]
Dict(f) == [t |-> "dict", v |-> f]
None == [t |-> "NoneType", v |-> <<>>]

isinstance(value, type) == value.t = type

Return(x) == [kind |-> "return", val |-> x]
Raise(cls, condition, data) == [kind |-> "raise", val |-> <<cls, condition, data>>]

SeqsUpTo(S, n) == UNION {[1..k -> S] : k \in 0..n}

Min(S) == CHOOSE m \in S : \A o \in S : m <= o

(* dict with insertion order: a sequence of [key, value] entries *)
Entry(k, x) == [key |-> k, value |-> x]
Keys(d) == {d[i].key : i \in DOMAIN d}
Get(d, k) == d[CHOOSE i \in DOMAIN d : d[i].key = k].value
Put(d, k, x) ==
    IF k \in Keys(d)
    THEN [i \in DOMAIN d |-> IF d[i].key = k THEN Entry(k, x) ELSE d[i]]
    ELSE Append(d, Entry(k, x))

(* a dict of a file's object value: a function from field names to values *)
Fields(f) == DOMAIN f
Without(f, k) == [x \in (DOMAIN f) \ {k} |-> f[x]]

-----------------------------------------------------------------------------
(* .env parser *)

Whitespace == {" "}

(* COMMENT_PATTERN.match(line): optional whitespace, then '#' *)
COMMENT_PATTERN_match(line) ==
    \E i \in 1..Len(line) : line[i] = "#" /\ \A j \in 1..(i - 1) : line[j] \in Whitespace

(* line.partition("=") *)
partition(line) ==
    LET at == {i \in 1..Len(line) : line[i] = "="}
    IN  IF at = {}
        THEN <<line, <<>>, <<>>>>
        ELSE <<SubSeq(line, 1, Min(at) - 1), <<"=">>, SubSeq(line, Min(at) + 1, Len(line))>>

FileSyntaxError(line_no, message) == [line_no |-> line_no, message |-> message]

MissingEqualSign == "Invalid line format. The line should contain at least one equal sign (\"=\")."
KeyIsEmpty == "Invalid line format. Key is empty."
FileIsEmpty == "The file is empty."
NotAnObject == "The file should contain the object."

defaultdict_append_unless_empty(secrets, key, value) ==
    IF value = <<>> THEN secrets
    ELSE Put(secrets, key,
             List(Append(IF key \in Keys(secrets) THEN Get(secrets, key).v ELSE <<>>, Str(value))))

(* secrets[key].append(value) on a defaultdict(list) *)
defaultdict_append(secrets, key, value) ==
    LET old == IF key \in Keys(secrets) THEN Get(secrets, key).v ELSE <<>>
    IN  Put(secrets, key, List(Append(old, Str(value))))

(* the body of the loop over the lines of the file *)
env_line(acc, line_no, line) ==
    IF line = <<>> THEN acc
    ELSE IF COMMENT_PATTERN_match(line) THEN acc
    ELSE LET key == partition(line)[1]
             sep == partition(line)[2]
             value == partition(line)[3]
         IN  IF sep = <<>>
             THEN [acc EXCEPT !.errors = Append(@, FileSyntaxError(line_no, MissingEqualSign))]
             ELSE [secrets |-> defaultdict_append(acc.secrets, key, value),
                   errors |-> IF value = <<>>
                              THEN Append(acc.errors, FileSyntaxError(line_no, KeyIsEmpty))
                              ELSE acc.errors]

RECURSIVE env_loop(_, _, _)
env_loop(lines, line_no, acc) ==
    IF line_no > Len(lines) THEN acc
    ELSE env_loop(lines, line_no + 1, env_line(acc, line_no, lines[line_no]))

_parse_env_file(fs, file_path) ==
    env_loop(fs[file_path].v, 1, [secrets |-> <<>>, errors |-> <<>>])

-----------------------------------------------------------------------------
(* JSON and YAML parsers.  The content of such a file is what the decoder  *)
(* makes of it: "empty", "malformed" (with the decoder's position),        *)
(* "object" (a mapping) or "value" (any other document).                   *)

_parse_json_file(fs, file_path) ==
    LET content == fs[file_path]
    IN  IF content.t = "empty"
        THEN [secrets |-> <<>>, errors |-> <<FileSyntaxError(1, FileIsEmpty)>>]
        ELSE IF content.t = "malformed"
        THEN [secrets |-> <<>>, errors |-> <<FileSyntaxError(content.v[1], "JSONDecodeError.msg")>>]
        ELSE IF content.t # "object"
        THEN [secrets |-> <<>>, errors |-> <<FileSyntaxError(1, NotAnObject)>>]
        ELSE [secrets |-> content.v, errors |-> <<>>]

_parse_yaml_file(fs, file_path) ==
    LET content == fs[file_path]
    IN  IF content.t = "empty"
        THEN [secrets |-> <<>>, errors |-> <<FileSyntaxError(1, FileIsEmpty)>>]
        ELSE IF content.t = "malformed"
        THEN LET problem_mark == content.v
                 err_line_no == IF problem_mark # <<>> THEN problem_mark[1] ELSE -1
             IN  [secrets |-> <<>>, errors |-> <<FileSyntaxError(err_line_no, "str(MarkedYAMLError)")>>]
        ELSE IF content.t # "object"
        THEN [secrets |-> <<>>, errors |-> <<FileSyntaxError(1, NotAnObject)>>]
        ELSE [secrets |-> content.v, errors |-> <<>>]

-----------------------------------------------------------------------------
(* File dispatcher.  A path is a sequence of characters; the letters of a  *)
(* file name that do not matter one by one are written as one element.     *)

FILE_PARSERS ==
    (<<"env">> :> "_parse_env_file") @@ (<<"json">> :> "_parse_json_file") @@
    (<<"yaml">> :> "_parse_yaml_file") @@ (<<"yml">> :> "_parse_yaml_file")

lower(s) ==
    [i \in DOMAIN s |->
        CASE s[i] = "ENV" -> "env"
          [] s[i] = "Json" -> "json"
          [] s[i] = "YAML" -> "yaml"
          [] s[i] = "Yml" -> "yml"
          [] s[i] = "TXT" -> "txt"
          [] OTHER -> s[i]]

(* file_path.rsplit(".", 2)[-1]: the text after the last ".", or the whole *)
(* path when it has none                                                   *)
rsplit_last(file_path) ==
    LET dots == {i \in 1..Len(file_path) : file_path[i] = "."}
    IN  IF dots = {} THEN file_path
        ELSE SubSeq(file_path, (CHOOSE m \in dots : \A o \in dots : o <= m) + 1, Len(file_path))

call_parser(name, fs, file_path) ==
    CASE name = "_parse_env_file" -> _parse_env_file(fs, file_path)
      [] name = "_parse_json_file" -> _parse_json_file(fs, file_path)
      [] name = "_parse_yaml_file" -> _parse_yaml_file(fs, file_path)

AirflowFileParseException_first_error(file_path, parse_errors) ==
    Raise("AirflowFileParseException", "AggregatedParseFailure",
          [file_path |-> file_path, parse_errors |-> <<parse_errors[1]>>])

AirflowFileParseException(file_path, parse_errors) ==
    Raise("AirflowFileParseException", "AggregatedParseFailure",
          [file_path |-> file_path, parse_errors |-> parse_errors])

(* if parse_errors: raise AirflowFileParseException(...); return secrets *)
raise_if_parse_errors(file_path, parsed) ==
    IF parsed.errors # <<>>
    THEN AirflowFileParseException(file_path, parsed.errors)
    ELSE Return(parsed.secrets)

(* the dispatch on ext = file_path.rsplit(".", 2)[-1].lower() *)
parse_by_ext(fs, file_path, ext) ==
    IF ext \notin DOMAIN FILE_PARSERS
    THEN Raise("AirflowException", "UnsupportedFormat", <<>>)
    ELSE raise_if_parse_errors(file_path, call_parser(FILE_PARSERS[ext], fs, file_path))

_parse_secret_file(fs, file_path) ==
    IF file_path \notin DOMAIN fs
    THEN Raise("AirflowException", "NotFound", file_path)
    ELSE parse_by_ext(fs, file_path, lower(rsplit_last(file_path)))

-----------------------------------------------------------------------------
(* Connection builder *)

(* the parameters of Connection.__init__ other than self *)
get_connection_parameter_names ==
    {"conn_id", "conn_type", "description", "host", "login", "password",
     "schema", "port", "extra", "uri"}

Connection(kwargs) == [t |-> "Connection", v |-> kwargs]

Quote == "\""

RECURSIVE json_dumps(_)
json_dumps(x) ==
    CASE x.t = "str" -> <<Quote>> \o x.v \o <<Quote>>
      [] x.t = "int" -> x.v
      [] x.t = "bool" -> x.v
      [] x.t = "NoneType" -> <<"null">>
      [] x.t = "list" ->
            IF x.v = <<>> THEN <<"[", "]">>
            ELSE <<"[">> \o json_dumps(Head(x.v)) \o <<"]">>
      [] x.t = "dict" ->
            IF Fields(x.v) = {} THEN <<"{", "}">>
            ELSE LET k == CHOOSE f \in Fields(x.v) : TRUE
                 IN  <<"{", Quote, k, Quote, ":", " ">> \o json_dumps(x.v[k]) \o <<"}">>

(* value["extra"] = json.dumps(value["extra_dejson"]); del value["extra_dejson"] *)
extra_from_dejson(value) ==
    IF "extra_dejson" \in Fields(value)
    THEN ("extra" :> Str(json_dumps(value["extra_dejson"]))) @@ Without(value, "extra_dejson")
    ELSE value

conn_id_mismatch_inverted(current_keys, conn_id, value) ==
    "conn_id" \in current_keys /\ Str(conn_id) = value["conn_id"]

(* "conn_id" in current_keys and conn_id != value["conn_id"] *)
conn_id_mismatch(current_keys, conn_id, value) ==
    "conn_id" \in current_keys /\ Str(conn_id) # value["conn_id"]

(* value["conn_id"] = conn_id *)
set_conn_id(value, conn_id) ==
    [f \in Fields(value) \cup {"conn_id"} |-> IF f = "conn_id" THEN Str(conn_id) ELSE value[f]]

(* the outcome of the call and the object `value` as the call leaves it *)
_create_connection(conn_id, value) ==
    IF isinstance(value, "str")
    THEN [outcome |-> Return(Connection(("conn_id" :> Str(conn_id)) @@ ("uri" :> value))),
          value |-> value]
    ELSE IF isinstance(value, "dict")
    THEN LET connection_parameter_names == get_connection_parameter_names \cup {"extra_dejson"}
             current_keys == Fields(value.v)
             converted == extra_from_dejson(value.v)
         IN  IF ~(current_keys \subseteq connection_parameter_names)
             THEN [outcome |-> Raise("AirflowException", "IllegalKeys",
                                     current_keys \ connection_parameter_names),
                   value |-> value]
             ELSE IF "extra" \in Fields(value.v) /\ "extra_dejson" \in Fields(value.v)
             THEN [outcome |-> Raise("AirflowException", "MutuallyExclusiveFields", <<>>),
                   value |-> value]
             ELSE IF conn_id_mismatch(current_keys, conn_id, converted)
             THEN [outcome |-> Raise("AirflowException", "ConnIdMismatch",
                                     [declared |-> converted["conn_id"], supplied |-> conn_id]),
                   value |-> Dict(converted)]
             ELSE [outcome |-> Return(Connection(set_conn_id(converted, conn_id))),
                   value |-> Dict(set_conn_id(converted, conn_id))]
    ELSE [outcome |-> Raise("AirflowException", "UnsupportedValueType", value.t),
          value |-> value]

-----------------------------------------------------------------------------
(* Variable resolver *)

(* isinstance(values, list) and len(values) != 1 *)
invalid_values(values) == isinstance(values, "list") /\ Len(values.v) # 1

unwrap_stringified(values) ==
    IF isinstance(values, "list") THEN values.v[1]
    ELSE IF isinstance(values, "str") THEN values
    ELSE [t |-> "str", v |-> <<"s", "t", "r", "(", values.t, ")">>]

(* values[0] if isinstance(values, list) else values *)
unwrap(values) == IF isinstance(values, "list") THEN values.v[1] ELSE values

(* the body of load_variables after secrets = _parse_secret_file(file_path): *)
(* `parsed` is the outcome of that call, whose exception passes through     *)
variables_from(file_path, parsed) ==
    IF parsed.kind = "raise" THEN parsed
    ELSE LET secrets == parsed.val
             invalid == SelectSeq(secrets, LAMBDA e : invalid_values(e.value))
             invalid_keys == [i \in DOMAIN invalid |-> invalid[i].key]
         IN  IF invalid_keys # <<>>
             THEN Raise("AirflowException", "MultipleValuesForKey",
                        [file_path |-> file_path, invalid_keys |-> invalid_keys])
             ELSE Return([i \in DOMAIN secrets |->
                             Entry(secrets[i].key, unwrap(secrets[i].value))])

load_variables(fs, file_path) == variables_from(file_path, _parse_secret_file(fs, file_path))

-----------------------------------------------------------------------------
(* Connection resolver *)

not_unique_off_by_one(secret_values) == Len(secret_values.v) > 2

(* len(secret_values) > 1 *)
not_unique(secret_values) == Len(secret_values.v) > 1

(* one pass of the loop over list(secrets.items()): the state of the loop  *)
(* is the mapping built so far, the parsed object (whose dict values the   *)
(* builder rewrites in place) and the exception raised, if any             *)
(* connection_by_conn_id[key] = _create_connection(key, ...): `made` is    *)
(* what the builder did, `in_list` tells that its value was the element of *)
(* a list                                                                  *)
connection_by_conn_id_set(st, i, key, made, in_list) ==
    [connection_by_conn_id |->
         IF made.outcome.kind = "return"
         THEN Put(st.connection_by_conn_id, key, made.outcome.val)
         ELSE st.connection_by_conn_id,
     secrets |-> [st.secrets EXCEPT ![i] =
                     Entry(key, IF in_list THEN List(<<made.value>>) ELSE made.value)],
     raised |-> IF made.outcome.kind = "raise" THEN <<made.outcome>> ELSE <<>>]

connections_step(st, i, file_path) ==
    LET key == st.secrets[i].key
        secret_values == st.secrets[i].value
    IN  IF isinstance(secret_values, "list")
        THEN IF not_unique(secret_values)
             THEN [st EXCEPT !.raised = <<Raise("ConnectionNotUnique", "DuplicateConnectionId",
                                                [key |-> key, file_path |-> file_path])>>]
             ELSE IF Len(secret_values.v) = 0
             THEN st
             ELSE connection_by_conn_id_set(st, i, key,
                      _create_connection(key, secret_values.v[1]), TRUE)
        ELSE connection_by_conn_id_set(st, i, key, _create_connection(key, secret_values), FALSE)

RECURSIVE connections_loop(_, _, _)
connections_loop(st, i, file_path) ==
    IF i > Len(st.secrets) \/ st.raised # <<>> THEN st
    ELSE connections_loop(connections_step(st, i, file_path), i + 1, file_path)

(* the outcome of the call and the parsed object as the call leaves it *)
(* how the loop ended: with the exception raised in it, or at the return *)
loop_end(st) ==
    [outcome |-> IF st.raised # <<>> THEN st.raised[1] ELSE Return(st.connection_by_conn_id),
     secrets |-> st.secrets]

(* the body of load_connections_dict after secrets = _parse_secret_file(   *)
(* file_path): `parsed` is the outcome of that call                        *)
connections_from(file_path, parsed) ==
    IF parsed.kind = "raise" THEN [outcome |-> parsed, secrets |-> <<>>]
    ELSE loop_end(connections_loop([connection_by_conn_id |-> <<>>,
                                    secrets |-> parsed.val,
                                    raised |-> <<>>], 1, file_path))

load_connections_dict(fs, file_path) ==
    connections_from(file_path, _parse_secret_file(fs, file_path))

-----------------------------------------------------------------------------
(* Backend facade.  A file path that is not configured is None or "", both *)
(* of them false for `not self.variables_file`: the empty path.            *)

NotConfigured == <<>>

(* dict.get(key) *)
dict_get(d, key) == IF key \in Keys(d) THEN Get(d, key) ELSE None

_local_variables_swallowing(self, fs) ==
    IF self.variables_file = NotConfigured
    THEN [outcome |-> Return(<<>>), resolutions |-> <<>>, secrets |-> <<>>]
    ELSE LET loaded == load_variables(fs, self.variables_file)
         IN  [outcome |-> IF loaded.kind = "raise" THEN Return(<<>>) ELSE loaded,
              resolutions |-> <<[file_path |-> self.variables_file, outcome |-> loaded]>>,
              secrets |-> <<>>]

(* the property's outcome, the resolver calls it made, and the parsed      *)
(* object those calls leave behind                                         *)
(* the value of a property that made one resolver call on file_path *)
one_resolution(file_path, outcome, secrets) ==
    [outcome |-> outcome,
     resolutions |-> <<[file_path |-> file_path, outcome |-> outcome]>>,
     secrets |-> secrets]

_local_variables(self, fs) ==
    IF self.variables_file = NotConfigured
    THEN [outcome |-> Return(<<>>), resolutions |-> <<>>, secrets |-> <<>>]
    ELSE one_resolution(self.variables_file, load_variables(fs, self.variables_file), <<>>)

connections_resolved(file_path, loaded) == one_resolution(file_path, loaded.outcome, loaded.secrets)

_local_connections(self, fs) ==
    IF self.connections_file = NotConfigured
    THEN [outcome |-> Return(<<>>), resolutions |-> <<>>, secrets |-> <<>>]
    ELSE connections_resolved(self.connections_file,
                              load_connections_dict(fs, self.connections_file))

(* self._local_variables.get(key) *)
variables_get(found, key) ==
    [outcome |-> IF found.outcome.kind = "raise" THEN found.outcome
                 ELSE Return(dict_get(found.outcome.val, key)),
     resolutions |-> found.resolutions]

get_variable(self, fs, key) == variables_get(_local_variables(self, fs), key)

-----------------------------------------------------------------------------
(* State *)

Ops == {"parser", "_parse_secret_file", "_create_connection", "load_variables",
        "load_connections_dict", "get_variable", "get_connection"}

NoCall == [op |-> "none", args |-> <<>>, outcome |-> Return(None), resolutions |-> <<>>,
           again |-> FALSE]

open_read_cached(fs, mem) ==
    [q \in DOMAIN fs |->
        IF q \in DOMAIN mem /\ fs[q].t = "object" THEN [t |-> "object", v |-> mem[q]] ELSE fs[q]]

(* with open(file_path) as f: content = f.read() -- every call reads the   *)
(* files as they are on disk; mem is what earlier calls left in memory     *)
open_read(fs, mem) == fs

(* the call op(args) has completed with this outcome; `first` keeps the    *)
(* first call completed since a file was last written or removed, and      *)
(* last.again tells that the call repeats that first call                  *)
Completed(op, args, outcome, resolutions) ==
    LET call == [op |-> op, args |-> args, outcome |-> outcome, resolutions |-> resolutions,
                 again |-> IF first.op = op THEN first.args = args ELSE FALSE]
    IN  /\ last' = call
        /\ first' = IF first.op = "none" THEN call ELSE first

(* the parsed object of file_path stays in memory as the call left it *)
Keep(file_path, outcome, secrets) ==
    heap' = IF outcome.kind = "raise" /\ secrets = <<>> THEN heap
            ELSE [q \in DOMAIN heap \cup {file_path} |-> IF q = file_path THEN secrets ELSE heap[q]]

has_parser(file_path) == lower(rsplit_last(file_path)) \in DOMAIN FILE_PARSERS

-----------------------------------------------------------------------------
(* Operations *)

CallParser(file_path) ==
    /\ pc = "idle"
    /\ file_path \in DOMAIN files
    /\ has_parser(file_path)
    /\ \E parsed \in {call_parser(FILE_PARSERS[lower(rsplit_last(file_path))],
                                 open_read(files, heap), file_path)} :
           /\ Completed("parser", file_path, Return(parsed), <<>>)
           /\ Keep(file_path, Return(parsed), parsed.secrets)
    /\ UNCHANGED <<files, backend, pc, frame>>

CallParseSecretFile(file_path) ==
    /\ pc = "idle"
    /\ \E outcome \in {_parse_secret_file(open_read(files, heap), file_path)} :
           /\ Completed("_parse_secret_file", file_path, outcome, <<>>)
           /\ Keep(file_path, outcome, IF outcome.kind = "return" THEN outcome.val ELSE <<>>)
    /\ UNCHANGED <<files, backend, pc, frame>>

CallCreateConnection(conn_id, value) ==
    /\ pc = "idle"
    /\ Completed("_create_connection", <<conn_id, value>>, _create_connection(conn_id, value).outcome, <<>>)
    /\ UNCHANGED <<files, backend, heap, pc, frame>>

CallLoadVariables(file_path) ==
    /\ pc = "idle"
    /\ \E outcome \in {load_variables(open_read(files, heap), file_path)},
           parsed \in {_parse_secret_file(open_read(files, heap), file_path)} :
           /\ Completed("load_variables", file_path, outcome, <<>>)
           /\ Keep(file_path, parsed, IF parsed.kind = "return" THEN parsed.val ELSE <<>>)
    /\ UNCHANGED <<files, backend, pc, frame>>

CallLoadConnectionsDict(file_path) ==
    /\ pc = "idle"
    /\ \E loaded \in {load_connections_dict(open_read(files, heap), file_path)} :
           /\ Completed("load_connections_dict", file_path, loaded.outcome, <<>>)
           /\ Keep(file_path, loaded.outcome, loaded.secrets)
    /\ UNCHANGED <<files, backend, pc, frame>>

GetVariable(key) ==
    /\ pc = "idle"
    /\ \E got \in {get_variable(backend, open_read(files, heap), key)},
           parsed \in {_parse_secret_file(open_read(files, heap), backend.variables_file)} :
           /\ Completed("get_variable", key, got.outcome, got.resolutions)
           /\ IF backend.variables_file = NotConfigured THEN heap' = heap
              ELSE Keep(backend.variables_file, parsed,
                        IF parsed.kind = "return" THEN parsed.val ELSE <<>>)
    /\ UNCHANGED <<files, backend, pc, frame>>

(* get_connection, line 305: `conn_id in self._local_connections` *)
GetConnectionTest(conn_id) ==
    /\ pc = "idle"
    /\ \E found \in {_local_connections(backend, open_read(files, heap))} :
           /\ IF backend.connections_file = NotConfigured THEN heap' = heap
              ELSE Keep(backend.connections_file, found.outcome, found.secrets)
           /\ IF found.outcome.kind = "raise"
              THEN /\ Completed("get_connection", conn_id, found.outcome, found.resolutions)
                   /\ UNCHANGED <<pc, frame>>
              ELSE IF conn_id \notin Keys(found.outcome.val)
              THEN /\ Completed("get_connection", conn_id, Return(None), found.resolutions)
                   /\ UNCHANGED <<pc, frame>>
              ELSE /\ pc' = "lookup"
                   /\ frame' = [conn_id |-> conn_id, resolutions |-> found.resolutions]
                   /\ UNCHANGED <<last, first>>
    /\ UNCHANGED <<files, backend>>

(* get_connection, line 306: `return self._local_connections[conn_id]` *)
GetConnectionLookup ==
    /\ pc = "lookup"
    /\ \E found \in {_local_connections(backend, open_read(files, heap))} :
       LET resolutions == frame.resolutions \o found.resolutions
       IN  /\ IF backend.connections_file = NotConfigured THEN heap' = heap
              ELSE Keep(backend.connections_file, found.outcome, found.secrets)
           /\ IF found.outcome.kind = "raise"
              THEN Completed("get_connection", frame.conn_id, found.outcome, resolutions)
              ELSE IF frame.conn_id \in Keys(found.outcome.val)
              THEN Completed("get_connection", frame.conn_id,
                             Return(Get(found.outcome.val, frame.conn_id)), resolutions)
              ELSE Completed("get_connection", frame.conn_id,
                             Raise("KeyError", "KeyError", frame.conn_id), resolutions)
    /\ pc' = "idle"
    /\ frame' = <<>>
    /\ UNCHANGED <<files, backend>>

(* another process writes or removes a file *)
WriteFile(file_path, content) ==
    /\ IF file_path \in DOMAIN files THEN files[file_path] # content ELSE TRUE
    /\ files' = [q \in DOMAIN files \cup {file_path} |-> IF q = file_path THEN content ELSE files[q]]
    /\ first' = NoCall
    /\ UNCHANGED <<backend, heap, pc, frame, last>>

RemoveFile(file_path) ==
    /\ file_path \in DOMAIN files
    /\ files' = [q \in (DOMAIN files) \ {file_path} |-> files[q]]
    /\ first' = NoCall
    /\ UNCHANGED <<backend, heap, pc, frame, last>>

-----------------------------------------------------------------------------
(* File contents *)

Chars == {"A", "=", "#", " "}

Text(lines) == [t |-> "text", v |-> lines]
Empty == [t |-> "empty", v |-> <<>>]
Malformed(position) == [t |-> "malformed", v |-> position]
Object(entries) == [t |-> "object", v |-> entries]
Value(x) == [t |-> "value", v |-> x]

(* every line of at most MaxLineLen characters, and the shortest lines     *)
(* with a key and a value: a second key, a value holding an equal sign     *)
EnvLines ==
    SeqsUpTo(Chars, MaxLineLen) \cup
    {<<"A", "=", "A">>, <<"A", "=", "B">>, <<"B", "=", "A">>, <<"A", "=", "=">>, <<" ", "#", "=">>}
EnvContents == {Text(lines) : lines \in SeqsUpTo(EnvLines, MaxLines)}

Uri == Str(<<"u">>)
Uri2 == Str(<<"w">>)
EmptyDict == Dict(<<>>)

DocKeys == {<<>>, <<"A">>, <<"B">>}
DocValues ==
    {Uri, Str(<<>>), PyInt(<<"5">>), None,
     List(<<>>), List(<<Uri>>), List(<<Uri, Uri2>>),
     Dict("extra_dejson" :> EmptyDict),
     Dict(("conn_id" :> Str(<<"B">>)) @@ ("extra_dejson" :> Uri)),
     Dict("foo" :> Uri),
     List(<<Dict("conn_type" :> Uri)>>)}

Injective(f) == \A i, j \in DOMAIN f : i # j => f[i] # f[j]

Objects ==
    UNION {{[i \in 1..n |-> Entry(ks[i], xs[i])] :
               ks \in {f \in [1..n -> DocKeys] : Injective(f)}, xs \in [1..n -> DocValues]} :
           n \in 0..MaxEntries}

TopValues == {Uri, PyInt(<<"5">>), None, List(<<Uri>>)}

JsonContents ==
    {Empty} \cup {Malformed(<<n>>) : n \in 1..MaxErrLine}
            \cup {Value(x) : x \in TopValues} \cup {Object(e) : e \in Objects}

YamlContents ==
    {Empty, Malformed(<<>>)} \cup {Malformed(<<n>>) : n \in 0..MaxErrLine}
            \cup {Value(x) : x \in TopValues} \cup {Object(e) : e \in Objects}

EnvPath == <<"s", ".", "env">>
JsonPath == <<"s", ".", "json">>
YamlPath == <<"s", ".", "yaml">>
ParsePaths == {EnvPath, JsonPath, YamlPath}

parser_of(file_path) ==
    IF has_parser(file_path) THEN FILE_PARSERS[lower(rsplit_last(file_path))] ELSE "none"

ContentsFor(file_path) ==
    CASE parser_of(file_path) = "_parse_env_file" -> EnvContents
      [] parser_of(file_path) = "_parse_json_file" -> JsonContents
      [] parser_of(file_path) = "_parse_yaml_file" -> YamlContents
      [] OTHER -> {Text(<<>>)}

NoBackend == [variables_file |-> NotConfigured, connections_file |-> NotConfigured]

Idle ==
    /\ heap = <<>>
    /\ pc = "idle"
    /\ frame = <<>>
    /\ last = NoCall
    /\ first = NoCall

-----------------------------------------------------------------------------
(* Parsers and dispatcher over every content of the three formats *)

InitParse ==
    /\ \E file_path \in ParsePaths : \E content \in ContentsFor(file_path) :
          files = (file_path :> content)
    /\ backend = NoBackend
    /\ Idle

NextParse ==
    \/ \E file_path \in DOMAIN files : CallParser(file_path)
    \/ \E file_path \in DOMAIN files : CallParseSecretFile(file_path)

SpecParse == InitParse /\ [][NextParse]_vars

-----------------------------------------------------------------------------
(* Properties of the parsers and of the dispatcher *)

IsEnv(file_path) == parser_of(file_path) = "_parse_env_file"
LastParser == last.op = "parser"
LastDispatch == last.op = "_parse_secret_file"

HasEqual(line) == \E i \in 1..Len(line) : line[i] = "="
FirstEqual(line) == CHOOSE i \in 1..Len(line) : line[i] = "=" /\ \A j \in 1..(i - 1) : line[j] # "="
KeyOf(line) == SubSeq(line, 1, FirstEqual(line) - 1)
ValueOf(line) == SubSeq(line, FirstEqual(line) + 1, Len(line))
IsEmptyLine(line) == Len(line) = 0
IsBlankLine(line) == \A i \in 1..Len(line) : line[i] \in Whitespace
IsCommentLine(line) == COMMENT_PATTERN_match(line)
Nth(S, n) == CHOOSE x \in S : Cardinality({y \in S : y < x}) = n - 1
Ascending(S) == [n \in 1..Cardinality(S) |-> Nth(S, n)]

(* The line rules of the .env format, given which lines are skipped: the   *)
(* errors are those of the lines without '=' or with an empty value, one   *)
(* each, in line order; the keys are those of the lines with an '=', and   *)
(* the list of a key holds the values of its lines in line order.          *)
DotenvRules(lines, parsed, Skipped(_)) ==
    LET live == {i \in 1..Len(lines) : ~Skipped(lines[i])}
        noeq == {i \in live : ~HasEqual(lines[i])}
        keyed == live \ noeq
        novalue == {i \in keyed : ValueOf(lines[i]) = <<>>}
        of(k) == Ascending({i \in keyed : KeyOf(lines[i]) = k})
    IN  /\ [n \in DOMAIN parsed.errors |-> parsed.errors[n].line_no] = Ascending(noeq \cup novalue)
        /\ \A n \in DOMAIN parsed.errors :
              parsed.errors[n].message =
                  IF parsed.errors[n].line_no \in noeq THEN MissingEqualSign ELSE KeyIsEmpty
        /\ Keys(parsed.secrets) = {KeyOf(lines[i]) : i \in keyed}
        /\ \A k \in Keys(parsed.secrets) :
              /\ isinstance(Get(parsed.secrets, k), "list")
              /\ Get(parsed.secrets, k).v = [n \in DOMAIN of(k) |-> Str(ValueOf(lines[of(k)[n]]))]

(* C8, as stated: blank lines (empty or of whitespace only) and comment    *)
(* lines contribute nothing; every other line follows the line rules.      *)
C8_BlankLinesSkipped ==
    (LastParser /\ IsEnv(last.args)) =>
        DotenvRules(files[last.args].v, last.outcome.val,
                    LAMBDA line : IsBlankLine(line) \/ IsCommentLine(line))

(* C8, amended: empty lines (no character at all) and comment lines        *)
(* contribute nothing; every other line, a line of whitespace included,    *)
(* follows the line rules: no '=' is one error with the line's number and  *)
(* no entry, 'KEY=' is one error and still the entry KEY -> "", and the    *)
(* values of a repeated key accumulate in a list in encounter order.       *)
C8_DotenvLineRules ==
    (LastParser /\ IsEnv(last.args)) =>
        DotenvRules(files[last.args].v, last.outcome.val,
                    LAMBDA line : IsEmptyLine(line) \/ IsCommentLine(line))

(* a line of whitespace gave an error, and the later line 'KEY=' gave an   *)
(* error and an entry                                                      *)
C8_Witness ==
    /\ LastParser /\ IsEnv(last.args)
    /\ \E i, j \in DOMAIN files[last.args].v :
          /\ i < j
          /\ ~IsEmptyLine(files[last.args].v[i]) /\ IsBlankLine(files[last.args].v[i])
          /\ HasEqual(files[last.args].v[j]) /\ ValueOf(files[last.args].v[j]) = <<>>
    /\ Len(last.outcome.val.errors) = 2
    /\ Keys(last.outcome.val.secrets) # {}

MalformedLines(lines) ==
    {i \in 1..Len(lines) :
        /\ ~IsEmptyLine(lines[i]) /\ ~IsCommentLine(lines[i])
        /\ ~HasEqual(lines[i]) \/ ValueOf(lines[i]) = <<>>}

(* C1: when the parser of the file reports errors, the dispatcher raises   *)
(* one AirflowFileParseException with the file path and all the parser's   *)
(* records in the parser's order -- for a .env file one record per         *)
(* malformed line, in ascending line order -- and it returns the mapping   *)
(* only when the parser reported no error.                                 *)
C1_AllErrorsAggregated ==
    (LastDispatch /\ last.args \in DOMAIN files /\ has_parser(last.args)) =>
        LET parsed == call_parser(parser_of(last.args), files, last.args)
            raised == last.outcome.val
        IN  /\ parsed.errors # <<>> =>
                  /\ last.outcome.kind = "raise"
                  /\ raised[1] = "AirflowFileParseException"
                  /\ raised[3].file_path = last.args
                  /\ raised[3].parse_errors = parsed.errors
                  /\ IsEnv(last.args) =>
                        [n \in DOMAIN raised[3].parse_errors |-> raised[3].parse_errors[n].line_no]
                            = Ascending(MalformedLines(files[last.args].v))
            /\ last.outcome.kind = "return" =>
                  parsed.errors = <<>> /\ last.outcome.val = parsed.secrets

(* a .env file with two malformed lines made the dispatcher fail *)
C1_Witness ==
    /\ LastDispatch /\ last.args \in DOMAIN files /\ IsEnv(last.args)
    /\ Cardinality(MalformedLines(files[last.args].v)) = 2
    /\ last.outcome.kind = "raise"

(* C9: every key of a mapping returned by a parser or by the dispatcher is *)
(* a non-empty string, and every value of a .env mapping is a list.        *)
C9_KeysNonEmpty ==
    LET returned == IF LastParser THEN last.outcome.val.secrets
                    ELSE IF LastDispatch /\ last.outcome.kind = "return" THEN last.outcome.val
                    ELSE <<>>
    IN  \A i \in DOMAIN returned :
            /\ returned[i].key # <<>>
            /\ IsEnv(last.args) => isinstance(returned[i].value, "list")

-----------------------------------------------------------------------------
(* Dispatcher over paths: at most one file exists *)

DispatchPaths ==
    {<<"s", ".", "env">>, <<"s", ".", "ENV">>, <<".", "env">>, <<"env">>,
     <<"s", ".", "json">>, <<"s", ".", "Json">>, <<"json">>,
     <<"s", ".", "yaml">>, <<"s", ".", "YAML">>, <<"s", ".", "yml">>, <<"s", ".", "Yml">>,
     <<"s", ".", "tar", ".", "json">>, <<"s", ".", "env", ".", "txt">>,
     <<"s", ".", "txt">>, <<"s", ".", "TXT">>, <<"s", ".">>, <<"s">>,
     <<"d", ".", "d", "/", "yaml">>, <<"d", "/", "s", ".", "yml">>}

SampleContents(file_path) ==
    CASE parser_of(file_path) = "_parse_env_file" ->
            {Text(<<>>), Text(<<<<"A", "=", "A">>>>), Text(<<<<"A">>, <<"A", "=">>>>)}
      [] parser_of(file_path) = "_parse_json_file" ->
            {Empty, Malformed(<<MaxErrLine>>), Value(Uri), Object(<<Entry(<<"A">>, Uri)>>)}
      [] parser_of(file_path) = "_parse_yaml_file" ->
            {Empty, Malformed(<<>>), Value(None), Object(<<Entry(<<"A">>, Uri)>>)}
      [] OTHER -> {Text(<<>>)}

InitDispatch ==
    /\ \/ files = <<>>
       \/ \E file_path \in DispatchPaths : \E content \in SampleContents(file_path) :
             files = (file_path :> content)
    /\ backend = NoBackend
    /\ Idle

NextDispatch == \E file_path \in DispatchPaths : CallParseSecretFile(file_path)

SpecDispatch == InitDispatch /\ [][NextDispatch]_vars

(* the extension of a file: the text after the last "." of its name (the   *)
(* part of the path after the last "/"), if the name has a "."             *)
Positions(s, c) == {i \in 1..Len(s) : s[i] = c}
Max(S) == CHOOSE m \in S : \A o \in S : o <= m
BaseName(file_path) ==
    IF Positions(file_path, "/") = {} THEN file_path
    ELSE SubSeq(file_path, Max(Positions(file_path, "/")) + 1, Len(file_path))
HasExtension(file_path) == Positions(BaseName(file_path), ".") # {}
ExtensionOf(file_path) ==
    SubSeq(BaseName(file_path), Max(Positions(BaseName(file_path), ".")) + 1,
           Len(BaseName(file_path)))
ParserForExtension(ext) ==
    CASE ext = <<"env">> -> "_parse_env_file"
      [] ext = <<"json">> -> "_parse_json_file"
      [] ext \in {<<"yaml">>, <<"yml">>} -> "_parse_yaml_file"
      [] OTHER -> "none"
SupportedExtension(file_path) ==
    HasExtension(file_path) /\ ParserForExtension(lower(ExtensionOf(file_path))) # "none"

(* C6: the dispatcher fails with NotFound when the path does not exist,    *)
(* whatever its extension; for an existing path it fails with              *)
(* UnsupportedFormat exactly when the extension of the file, lower-cased,  *)
(* is not one of env, json, yaml, yml; otherwise its outcome is that of    *)
(* the parser mapped to the extension.                                     *)
C6_DispatchByExtension ==
    LastDispatch =>
        IF last.args \notin DOMAIN files
        THEN last.outcome = Raise("AirflowException", "NotFound", last.args)
        ELSE /\ (last.outcome = Raise("AirflowException", "UnsupportedFormat", <<>>))
                    <=> ~SupportedExtension(last.args)
             /\ SupportedExtension(last.args) =>
                   LET parsed == call_parser(ParserForExtension(lower(ExtensionOf(last.args))),
                                             files, last.args)
                   IN  last.outcome = IF parsed.errors # <<>>
                                      THEN AirflowFileParseException(last.args, parsed.errors)
                                      ELSE Return(parsed.secrets)

-----------------------------------------------------------------------------
(* Connection builder over values of every type *)

Absent == [t |-> "absent", v |-> <<>>]

(* the dict with the fields of r that are present *)
Pack(r) == Dict([f \in {g \in DOMAIN r : r[g] # Absent} |-> r[f]])

ConnIds == {<<"A">>, <<"B">>}

ConnDicts ==
    {Pack([conn_id |-> c, conn_type |-> t, extra |-> e, extra_dejson |-> d, uri |-> u,
           foo |-> f, bar |-> b]) :
        c \in {Absent, Str(<<"A">>), Str(<<"B">>), PyInt(<<"5">>), None},
        t \in {Absent, Str(<<"t">>)},
        e \in {Absent, Str(<<"{", "}">>)},
        d \in {Absent, EmptyDict, Dict("k" :> Uri), Uri, None},
        u \in {Absent, Uri},
        f \in {Absent, Uri},
        b \in {Absent, None}}

ConnValues ==
    {Uri, Str(<<>>), PyInt(<<"5">>), PyBool(<<"true">>), None,
     List(<<>>), List(<<Uri>>), List(<<EmptyDict>>)} \cup ConnDicts

(* the value is the one stored under conn_id in a file of one entry *)
InitConn ==
    /\ \E conn_id \in ConnIds, value \in ConnValues :
          files = (JsonPath :> Object(<<Entry(conn_id, value)>>))
    /\ backend = NoBackend
    /\ Idle

NextConn ==
    \E file_path \in DOMAIN files : \E i \in DOMAIN files[file_path].v :
        CallCreateConnection(files[file_path].v[i].key, files[file_path].v[i].value)

SpecConn == InitConn /\ [][NextConn]_vars

LastCreate == last.op = "_create_connection"
AllowedFields == get_connection_parameter_names \cup {"extra_dejson"}

(* C3: the outcome of the connection builder follows the decision table:   *)
(* a string gives the URI connection with the supplied conn_id; an object  *)
(* gives the first applicable of IllegalKeys (naming the keys outside the  *)
(* allow-list), MutuallyExclusiveFields and ConnIdMismatch, and otherwise  *)
(* the connection with the supplied conn_id, the other fields unchanged    *)
(* and extra_dejson replaced by extra, its JSON text; any other type gives *)
(* UnsupportedValueType naming the type.                                   *)
C3_DecisionTable ==
    LastCreate =>
        LET conn_id == last.args[1]
            value == last.args[2]
            outcome == last.outcome
            made == outcome.val.v
        IN  CASE value.t = "str" ->
                    outcome = Return(Connection(("conn_id" :> Str(conn_id)) @@ ("uri" :> value)))
              [] value.t = "dict" ->
                    IF ~(Fields(value.v) \subseteq AllowedFields)
                    THEN outcome = Raise("AirflowException", "IllegalKeys",
                                         Fields(value.v) \ AllowedFields)
                    ELSE IF {"extra", "extra_dejson"} \subseteq Fields(value.v)
                    THEN outcome = Raise("AirflowException", "MutuallyExclusiveFields", <<>>)
                    ELSE IF "conn_id" \in Fields(value.v) /\ value.v["conn_id"] # Str(conn_id)
                    THEN outcome = Raise("AirflowException", "ConnIdMismatch",
                                         [declared |-> value.v["conn_id"], supplied |-> conn_id])
                    ELSE /\ outcome.kind = "return"
                         /\ outcome.val.t = "Connection"
                         /\ made["conn_id"] = Str(conn_id)
                         /\ Fields(made) =
                                (Fields(value.v) \ {"extra_dejson"}) \cup {"conn_id"} \cup
                                (IF "extra_dejson" \in Fields(value.v) THEN {"extra"} ELSE {})
                         /\ \A f \in Fields(value.v) \ {"extra_dejson", "conn_id"} :
                                made[f] = value.v[f]
                         /\ "extra_dejson" \in Fields(value.v) =>
                                made["extra"] = Str(json_dumps(value.v["extra_dejson"]))
              [] OTHER -> outcome = Raise("AirflowException", "UnsupportedValueType", value.t)

(* an object that declares its own conn_id and has extra_dejson became a   *)
(* connection                                                              *)
C3_Witness ==
    /\ LastCreate
    /\ last.args[2].t = "dict"
    /\ {"conn_id", "extra_dejson"} \subseteq Fields(last.args[2].v)
    /\ last.outcome.kind = "return"
    /\ "extra" \in Fields(last.outcome.val.v)

-----------------------------------------------------------------------------
(* Resolvers over one file of any of the three formats *)

LoadLines ==
    {<<"A", "=", "A">>, <<"A", "=", "B">>, <<"B", "=", "A">>, <<"=", "A">>, <<"A", "=">>,
     <<"#">>, <<>>}
LoadContents(file_path) ==
    IF IsEnv(file_path) THEN {Text(lines) : lines \in SeqsUpTo(LoadLines, MaxLines)}
    ELSE ContentsFor(file_path)

InitLoad ==
    /\ \E file_path \in ParsePaths : \E content \in LoadContents(file_path) :
          files = (file_path :> content)
    /\ backend = NoBackend
    /\ Idle

NextLoad ==
    \/ \E file_path \in DOMAIN files : CallLoadVariables(file_path)
    \/ \E file_path \in DOMAIN files : CallLoadConnectionsDict(file_path)

SpecLoad == InitLoad /\ [][NextLoad]_vars

LastLoadVariables == last.op = "load_variables"
LastLoadConnections == last.op = "load_connections_dict"
Dispatched == _parse_secret_file(files, last.args)

(* C2: load_variables fails with MultipleValuesForKey, naming the file and *)
(* every offending key, exactly when some raw value is a list of length    *)
(* other than 1; otherwise it returns a mapping with the same keys, each   *)
(* singleton list replaced by its element, every other value unchanged.    *)
C2_VariablesResolved ==
    (LastLoadVariables /\ Dispatched.kind = "return") =>
        LET secrets == Dispatched.val
            offending == {i \in DOMAIN secrets :
                             secrets[i].value.t = "list" /\ Len(secrets[i].value.v) # 1}
            failed == last.outcome.kind = "raise"
        IN  /\ failed <=> offending # {}
            /\ failed =>
                  /\ last.outcome.val[2] = "MultipleValuesForKey"
                  /\ last.outcome.val[3].file_path = last.args
                  /\ {last.outcome.val[3].invalid_keys[n] : n \in DOMAIN last.outcome.val[3].invalid_keys}
                         = {secrets[i].key : i \in offending}
            /\ ~failed =>
                  /\ Keys(last.outcome.val) = Keys(secrets)
                  /\ \A i \in DOMAIN secrets :
                        Get(last.outcome.val, secrets[i].key) =
                            IF secrets[i].value.t = "list" THEN secrets[i].value.v[1]
                            ELSE secrets[i].value

(* a singleton list was unwrapped and a value that is no string was kept *)
C2_Witness ==
    /\ LastLoadVariables /\ last.outcome.kind = "return"
    /\ \E i, j \in DOMAIN last.outcome.val :
          /\ Dispatched.val[i].value.t = "list"
          /\ last.outcome.val[j].value.t \notin {"str", "list"}

Sole(values) == IF values.t = "list" THEN values.v[1] ELSE values
Duplicated(secrets) ==
    {i \in DOMAIN secrets : secrets[i].value.t = "list" /\ Len(secrets[i].value.v) > 1}
Dropped(secrets) ==
    {i \in DOMAIN secrets : secrets[i].value.t = "list" /\ Len(secrets[i].value.v) = 0}
Rejected(secrets) ==
    {i \in DOMAIN secrets \ (Duplicated(secrets) \cup Dropped(secrets)) :
        _create_connection(secrets[i].key, Sole(secrets[i].value)).outcome.kind = "raise"}
NotUnique(key, file_path) ==
    Raise("ConnectionNotUnique", "DuplicateConnectionId", [key |-> key, file_path |-> file_path])

(* the connection of every given entry is the one the builder makes of the *)
(* key and the value (of its sole element, for a list), and carries the    *)
(* key as its conn_id                                                      *)
BuiltFrom(result, secrets, entries) ==
    /\ Keys(result) = {secrets[i].key : i \in entries}
    /\ \A i \in entries :
          /\ Get(result, secrets[i].key) =
                 _create_connection(secrets[i].key, Sole(secrets[i].value)).outcome.val
          /\ Get(result, secrets[i].key).v["conn_id"] = Str(secrets[i].key)

(* C4, as stated: load_connections_dict fails with ConnectionNotUnique     *)
(* whenever some raw value is a list of length > 1; when it succeeds the   *)
(* result has an entry for every key of the parsed mapping, built by the   *)
(* builder from the key and the value, and carrying the key as its ID.     *)
C4_EveryKeyResolved ==
    (LastLoadConnections /\ Dispatched.kind = "return") =>
        LET secrets == Dispatched.val
        IN  /\ Duplicated(secrets) # {} =>
                  /\ last.outcome.kind = "raise"
                  /\ last.outcome.val[1] = "ConnectionNotUnique"
            /\ last.outcome.kind = "return" =>
                  BuiltFrom(last.outcome.val, secrets, DOMAIN secrets)

(* C4, amended: load_connections_dict fails whenever some raw value is a   *)
(* list of length > 1: with ConnectionNotUnique for the first such key,    *)
(* unless the builder rejects the value of an earlier key, and then with   *)
(* the builder's failure.  When it succeeds the result has an entry for    *)
(* every key whose raw value is not an empty list (a key with an empty     *)
(* list gets no entry), built by the builder from the key and the value,   *)
(* and carrying the key as its ID.                                         *)
C4_ConnectionsResolved ==
    (LastLoadConnections /\ Dispatched.kind = "return") =>
        LET secrets == Dispatched.val
            stop == Duplicated(secrets) \cup Rejected(secrets)
        IN  /\ Duplicated(secrets) # {} => last.outcome.kind = "raise"
            /\ last.outcome.kind = "raise" =>
                  /\ stop # {}
                  /\ last.outcome =
                        IF Min(stop) \in Duplicated(secrets)
                        THEN NotUnique(secrets[Min(stop)].key, last.args)
                        ELSE _create_connection(secrets[Min(stop)].key,
                                                Sole(secrets[Min(stop)].value)).outcome
            /\ last.outcome.kind = "return" =>
                  BuiltFrom(last.outcome.val, secrets, (DOMAIN secrets) \ Dropped(secrets))

(* the call succeeded on a mapping with an empty list and another entry *)
C4_Witness ==
    /\ LastLoadConnections /\ Dispatched.kind = "return"
    /\ last.outcome.kind = "return"
    /\ Dropped(Dispatched.val) # {}
    /\ last.outcome.val # <<>>

-----------------------------------------------------------------------------
(* Backend over one file that nobody writes *)

LookupKeys == {<<"A">>, <<"B">>}

FacadeContents ==
    {Object(<<>>), Malformed(<<1>>),
     Object(<<Entry(<<"A">>, Uri)>>), Object(<<Entry(<<"A">>, Uri2)>>),
     Object(<<Entry(<<"A">>, None)>>),
     Object(<<Entry(<<"A">>, List(<<>>))>>),
     Object(<<Entry(<<"A">>, List(<<Uri, Uri2>>))>>),
     Object(<<Entry(<<"A">>, Dict("extra_dejson" :> EmptyDict))>>),
     Object(<<Entry(<<"A">>, Dict("conn_type" :> Uri)), Entry(<<"B">>, Dict("foo" :> Uri))>>)}

Backends ==
    [variables_file : {NotConfigured, JsonPath}, connections_file : {NotConfigured, JsonPath}]

InitFacade ==
    /\ \/ files = <<>>
       \/ \E content \in FacadeContents : files = (JsonPath :> content)
    /\ backend \in Backends
    /\ Idle

NextFacade ==
    \/ \E key \in LookupKeys : GetVariable(key)
    \/ \E conn_id \in LookupKeys : GetConnectionTest(conn_id)
    \/ GetConnectionLookup
    \/ CallLoadVariables(JsonPath)
    \/ CallLoadConnectionsDict(JsonPath)

SpecFacade == InitFacade /\ [][NextFacade]_vars

(* C7: a call of load_variables, load_connections_dict, get_variable or    *)
(* get_connection that repeats an earlier call on the same unmodified file *)
(* has the outcome of the earlier call, whatever calls came in between.    *)
C7_Idempotent == last.again => last.outcome = first.outcome

(* a lookup was repeated after a call had rewritten a connection object of *)
(* the parsed file in place                                                *)
C7_Witness ==
    /\ last.again
    /\ last.outcome.kind = "return"
    /\ last.outcome.val # None
    /\ JsonPath \in DOMAIN heap /\ JsonPath \in DOMAIN files
    /\ files[JsonPath].t = "object" /\ heap[JsonPath] # files[JsonPath].v

-----------------------------------------------------------------------------
(* Backend over one file that another process writes and removes *)

RaceContents ==
    {Object(<<>>), Malformed(<<1>>),
     Object(<<Entry(<<"A">>, Uri)>>), Object(<<Entry(<<"A">>, Uri2)>>),
     Object(<<Entry(<<"A">>, None)>>)}

InitRace ==
    /\ \/ files = <<>>
       \/ \E content \in RaceContents : files = (JsonPath :> content)
    /\ backend \in Backends
    /\ Idle

NextRace ==
    \/ \E key \in LookupKeys : GetVariable(key)
    \/ \E conn_id \in LookupKeys : GetConnectionTest(conn_id)
    \/ GetConnectionLookup
    \/ \E content \in RaceContents : WriteFile(JsonPath, content)
    \/ RemoveFile(JsonPath)

SpecRace == InitRace /\ [][NextRace]_vars

LastLookup == last.op \in {"get_variable", "get_connection"}
ConfiguredFile ==
    IF last.op = "get_variable" THEN backend.variables_file ELSE backend.connections_file

(* the failure policy of the lookups, given when a key counts as absent    *)
FailurePolicy(Missing(_, _)) ==
    LastLookup =>
        IF ConfiguredFile = NotConfigured
        THEN last.outcome = Return(None) /\ last.resolutions = <<>>
        ELSE /\ last.resolutions # <<>>
             /\ \A n \in DOMAIN last.resolutions :
                   /\ last.resolutions[n].file_path = ConfiguredFile
                   /\ last.resolutions[n].outcome.kind = "raise" =>
                         last.outcome = last.resolutions[n].outcome
             /\ last.outcome = Return(None) =>
                   /\ \A n \in DOMAIN last.resolutions :
                         last.resolutions[n].outcome.kind = "return"
                   /\ Missing(last.resolutions[Len(last.resolutions)].outcome.val, last.args)

(* C5, as stated: an unconfigured file gives 'not found' without a         *)
(* resolution; for a configured file every resolution failure is the       *)
(* outcome of the lookup, and 'not found' is returned only when the        *)
(* resolution succeeded and the key is absent.                             *)
C5_NotFoundOnlyWhenAbsent ==
    FailurePolicy(LAMBDA resolved, key : key \notin Keys(resolved))

(* C5, amended: as stated, except that 'not found' is also what a lookup   *)
(* returns for a key that is present with a null value.                    *)
C5_FailurePolicy ==
    FailurePolicy(LAMBDA resolved, key : key \in Keys(resolved) => Get(resolved, key) = None)

(* a lookup in a configured file failed with the failure of its resolution *)
C5_Witness ==
    /\ LastLookup
    /\ ConfiguredFile # NotConfigured
    /\ last.outcome.kind = "raise"
    /\ last.resolutions[Len(last.resolutions)].outcome = last.outcome

LookupIn(resolved, conn_id) ==
    IF resolved.kind = "raise" THEN resolved
    ELSE IF conn_id \in Keys(resolved.val) THEN Return(Get(resolved.val, conn_id))
    ELSE Return(None)

(* C10: the outcome of get_connection on a configured file is that of the  *)
(* one snapshot of the file in which the ID was looked up: the connection  *)
(* of that snapshot, 'not found', or the failure of that snapshot -- never *)
(* a key-lookup error, a failure of a later snapshot or a connection of a  *)
(* later snapshot, whatever another process does to the file meanwhile.    *)
C10_SingleSnapshot ==
    (last.op = "get_connection" /\ backend.connections_file # NotConfigured) =>
        last.outcome = LookupIn(last.resolutions[1].outcome, last.args)

====
